---------------------------- MODULE Spec2Model ----------------------------
(***************************************************************************)
(* MR::Math::QuadraticLineSearch<ValueType> (math/quadratic_line_search.h).*)
(*                                                                         *)
(* One search object, its setters, and its two entry points operator()     *)
(* and verbose(), each run pass by pass of its while loop against a cost   *)
(* function object.                                                        *)
(*                                                                         *)
(* ValueType is modelled as the exact rationals extended with the IEEE     *)
(* special values: a value is a pair <<n, d>>, d > 0 and gcd(n, d) = 1 for *)
(* the rational n/d, and d = 0 for the specials <<1,0>> = +inf,            *)
(* <<-1,0>> = -inf, <<0,0>> = NaN.  Rounding is not modelled.  A zero is   *)
(* +0, so x/0 is +inf for x > 0, -inf for x < 0 and NaN for x = 0.         *)
(***************************************************************************)
EXTENDS Integers, Sequences, FiniteSets

(***************************************************************************)
(* Bounds of the model.                                                    *)
(***************************************************************************)
\* Passes of the while loop explored in one call.
MaxPasses == 3
\* set_max_iterations is called with 0 .. MaxSetIters.
MaxSetIters == 2

(***************************************************************************)
(* ValueType arithmetic.                                                   *)
(***************************************************************************)
RECURSIVE GCD(_, _)
GCD(a, b) == IF b = 0 THEN a ELSE GCD(b, a % b)

AbsInt(i) == IF i < 0 THEN -i ELSE i

SignInt(i) == IF i < 0 THEN -1 ELSE IF i > 0 THEN 1 ELSE 0

\* The value n/d in lowest terms; n/0 is an infinity of n's sign, 0/0 is NaN.
Norm(n, d) ==
  IF d = 0 THEN <<SignInt(n), 0>>
  ELSE LET g == GCD(AbsInt(n), AbsInt(d))
           s == IF d < 0 THEN -1 ELSE 1
       IN  <<(s * n) \div g, (s * d) \div g>>

Rat(n, d) == Norm(n, d)

NaN == <<0, 0>>
PosInf == <<1, 0>>
NegInf == <<-1, 0>>
Zero == <<0, 1>>
Half == <<1, 2>>
Two == <<2, 1>>

\* std::isfinite
IsFinite(x) == x[2] # 0

IsNaN(x) == x = NaN

Neg(x) == <<-x[1], x[2]>>

\* x + y
Add(x, y) ==
  IF IsFinite(x) /\ IsFinite(y) THEN Norm(x[1] * y[2] + y[1] * x[2], x[2] * y[2])
  ELSE IF IsNaN(x) \/ IsNaN(y) THEN NaN
  ELSE IF ~IsFinite(x) /\ ~IsFinite(y) THEN (IF x = y THEN x ELSE NaN)
  ELSE IF ~IsFinite(x) THEN x
  ELSE y

\* x - y
Sub(x, y) == Add(x, Neg(y))

\* x * y (inf * 0 is NaN)
Mul(x, y) == Norm(x[1] * y[1], x[2] * y[2])

\* 1 / x (1/0 is +inf)
Recip(x) == IF x[1] < 0 THEN <<-x[2], -x[1]>> ELSE <<x[2], x[1]>>

\* x / y (0/0 and inf/inf are NaN)
Div(x, y) == Mul(x, Recip(y))

\* x < y: false when either side is NaN
Lt(x, y) ==
  /\ ~IsNaN(x)
  /\ ~IsNaN(y)
  /\ IF ~IsFinite(x) /\ ~IsFinite(y) THEN x = NegInf /\ y = PosInf
     ELSE x[1] * y[2] < y[1] * x[2]

\* x > y
Gt(x, y) == Lt(y, x)

\* x == y: false when either side is NaN
Eq(x, y) == ~IsNaN(x) /\ ~IsNaN(y) /\ x = y

\* std::min (a, b): (b < a) ? b : a
Min(a, b) == IF Lt(b, a) THEN b ELSE a

\* std::abs
AbsVal(x) == <<AbsInt(x[1]), x[2]>>

(***************************************************************************)
(* The cost function objects handed to the search.                         *)
(***************************************************************************)
\* quad: a*(x-c)^2, lin: a*(x-c), const: c whatever x is, abs: |x-c|,
\* pole: (x-c)^2 but not a number at x = c itself.
Functors ==
  { [kind |-> "quad",  a |-> Rat(1, 1),  c |-> Rat(0, 1)],
    [kind |-> "quad",  a |-> Rat(1, 1),  c |-> Rat(2, 1)],
    [kind |-> "quad",  a |-> Rat(1, 1),  c |-> Rat(5, 1)],
    [kind |-> "quad",  a |-> Rat(-1, 1), c |-> Rat(2, 1)],
    [kind |-> "lin",   a |-> Rat(1, 1),  c |-> Rat(0, 1)],
    [kind |-> "const", a |-> Rat(0, 1),  c |-> Rat(1, 1)],
    [kind |-> "abs",   a |-> Rat(1, 1),  c |-> Rat(3, 2)],
    [kind |-> "abs",   a |-> Rat(1, 1),  c |-> Rat(5, 1)],
    [kind |-> "pole",  a |-> Rat(1, 1),  c |-> Rat(2, 1)] }

\* functor (x)
Functor(f, x) ==
  CASE f.kind = "quad"  -> Mul(f.a, Mul(Sub(x, f.c), Sub(x, f.c)))
    [] f.kind = "lin"   -> Mul(f.a, Sub(x, f.c))
    [] f.kind = "const" -> f.c
    [] f.kind = "abs"   -> AbsVal(Sub(x, f.c))
    [] f.kind = "pole"  -> IF Eq(x, f.c) THEN NaN
                           ELSE Mul(f.a, Mul(Sub(x, f.c), Sub(x, f.c)))

(***************************************************************************)
(* Inputs of the constructor and the setters.                              *)
(***************************************************************************)
CtorBounds == { <<Rat(0, 1), Rat(4, 1)>>, <<Rat(0, 1), Rat(2, 1)>> }
LowerBounds == { Rat(0, 1), Rat(1, 1) }
InitEstimates == { Rat(1, 1), Rat(2, 1) }
UpperBounds == { Rat(2, 1), Rat(4, 1) }
ValueTolerances == { Rat(2, 1) }
FunctionTolerances == { Rat(0, 1), Rat(1, 2) }
IterationCounts == 0 .. MaxSetIters

\* enum return_t
Statuses == { "SUCCESS", "EXECUTING", "OUTSIDE_BOUNDS", "NONCONVEX", "NONCONVERGING" }

\* The two entry points.
Entries == { "operator", "verbose" }

DefaultMaxIters == 50

VARIABLES
  init_lower, init_mid, init_upper,      \* ValueType fields
  value_tolerance, function_tolerance,   \* ValueType fields
  exit_outside_bounds,                   \* bool field
  max_iters,                             \* size_t field
  status,                                \* mutable return_t field
  functor,                               \* the cost function object
  pc,                                    \* "idle", or the entry point executing
  frame,                                 \* locals l, m, u, fl, fm, fu, iters of the call
  obs,                                   \* history of the call executing
  result                                 \* per entry point: what its caller got back

config == <<init_lower, init_mid, init_upper, value_tolerance,
            function_tolerance, exit_outside_bounds, max_iters>>

vars == <<init_lower, init_mid, init_upper, value_tolerance, function_tolerance,
          exit_outside_bounds, max_iters, status, functor, pc, frame, obs, result>>

NoFrame == [l |-> Zero, m |-> Zero, u |-> Zero,
            fl |-> Zero, fm |-> Zero, fu |-> Zero, iters |-> 0]

\* evals: calls of the functor; steps: candidates n computed; zdiv:
\* the zero divisors evaluated; trace: per pass begun, the bracket at its head,
\* the candidate (NaN when none was computed) and the position found for it.
NoObs == [evals |-> 0, steps |-> 0, zdiv |-> {}, trace |-> << >>]

NoResult == [done |-> FALSE, ret |-> Zero, status |-> "SUCCESS", path |-> "none",
             frame |-> NoFrame, obs |-> NoObs]

\* QuadraticLineSearch (lower_bound, upper_bound), and a cost function object
Init ==
  \E b \in CtorBounds, f \in Functors :
    /\ init_lower = b[1]
    /\ init_mid = Mul(Half, Add(b[1], b[2]))
    /\ init_upper = b[2]
    /\ value_tolerance = Mul(Rat(1, 1000), Sub(b[2], b[1]))
    /\ function_tolerance = Zero
    /\ exit_outside_bounds = TRUE
    /\ max_iters = DefaultMaxIters
    /\ status = "SUCCESS"
    /\ functor = f
    /\ pc = "idle"
    /\ frame = NoFrame
    /\ obs = NoObs
    /\ result = [e \in Entries |-> NoResult]

\* The object is configured before it is invoked.
Configurable == pc = "idle" /\ \A e \in Entries : ~result[e].done

set_lower_bound(i) ==
  /\ Configurable
  /\ init_lower' = i
  /\ UNCHANGED <<init_mid, init_upper, value_tolerance, function_tolerance,
                 exit_outside_bounds, max_iters, status, functor, pc, frame, obs, result>>

set_init_estimate(i) ==
  /\ Configurable
  /\ init_mid' = i
  /\ UNCHANGED <<init_lower, init_upper, value_tolerance, function_tolerance,
                 exit_outside_bounds, max_iters, status, functor, pc, frame, obs, result>>

set_upper_bound(i) ==
  /\ Configurable
  /\ init_upper' = i
  /\ UNCHANGED <<init_lower, init_mid, value_tolerance, function_tolerance,
                 exit_outside_bounds, max_iters, status, functor, pc, frame, obs, result>>

set_value_tolerance(i) ==
  /\ Configurable
  /\ value_tolerance' = i
  /\ UNCHANGED <<init_lower, init_mid, init_upper, function_tolerance,
                 exit_outside_bounds, max_iters, status, functor, pc, frame, obs, result>>

set_function_tolerance(i) ==
  /\ Configurable
  /\ function_tolerance' = i
  /\ UNCHANGED <<init_lower, init_mid, init_upper, value_tolerance,
                 exit_outside_bounds, max_iters, status, functor, pc, frame, obs, result>>

set_exit_if_outside_bounds(i) ==
  /\ Configurable
  /\ exit_outside_bounds' = i
  /\ UNCHANGED <<init_lower, init_mid, init_upper, value_tolerance, function_tolerance,
                 max_iters, status, functor, pc, frame, obs, result>>

set_max_iterations(i) ==
  /\ Configurable
  /\ max_iters' = i
  /\ UNCHANGED <<init_lower, init_mid, init_upper, value_tolerance, function_tolerance,
                 exit_outside_bounds, status, functor, pc, frame, obs, result>>


(***************************************************************************)
(* The body of the while loop.                                             *)
(***************************************************************************)
\* fl + ((fu-fl)*(m-l)/(u-l))
Chord(fr) ==
  Add(fr.fl, Div(Mul(Sub(fr.fu, fr.fl), Sub(fr.m, fr.l)), Sub(fr.u, fr.l)))

\* if (fm > (fl + ((fu-fl)*(m-l)/(u-l))))
AboveChord(fr) == Gt(fr.fm, Chord(fr))

\* std::min(m-l, u-m) < value_tolerance
WithinValueTolerance(fr) ==
  Lt(Min(Sub(fr.m, fr.l), Sub(fr.u, fr.m)), value_tolerance)

\* std::abs((fu-fl)/(0.5*(fu+fl))) < function_tolerance
WithinFunctionTolerance(fr) ==
  Lt(AbsVal(Div(Sub(fr.fu, fr.fl), Mul(Half, Add(fr.fu, fr.fl)))), function_tolerance)

\* A slip: the function tolerance test left out.
ToleratedWithoutFunctionTolerance(fr) == WithinValueTolerance(fr)

\* operator(): the test under which a bracket that fails the chord test is accepted
ToleratedOperator(fr) == WithinValueTolerance(fr) \/ WithinFunctionTolerance(fr)

\* verbose(): the same test
ToleratedVerbose(fr) == WithinValueTolerance(fr)

\* sl = (fm-fl) / (m-l)
SlopeLower(fr) == Div(Sub(fr.fm, fr.fl), Sub(fr.m, fr.l))

\* su = (fu-fm) / (u-m)
SlopeUpper(fr) == Div(Sub(fr.fu, fr.fm), Sub(fr.u, fr.m))

\* n = (0.5*(l+m)) - ((sl*(u-l)) / (2.0*(su-sl)))
Candidate(fr) ==
  Sub(Mul(Half, Add(fr.l, fr.m)),
      Div(Mul(SlopeLower(fr), Sub(fr.u, fr.l)),
          Mul(Two, Sub(SlopeUpper(fr), SlopeLower(fr)))))

\* The divisors of a pass that are zero: of the chord test, of the function
\* tolerance test where the entry point has it and evaluates it, of the two
\* slopes and of the candidate.
ZeroDivisors(e, fr) ==
  { d \in { "u-l", "fu+fl", "m-l", "u-m", "su-sl" } :
      \/ d = "u-l" /\ Sub(fr.u, fr.l) = Zero
      \/ /\ d = "fu+fl"
         /\ e = "operator"
         /\ AboveChord(fr)
         /\ ~WithinValueTolerance(fr)
         /\ Mul(Half, Add(fr.fu, fr.fl)) = Zero
      \/ d = "m-l" /\ ~AboveChord(fr) /\ Sub(fr.m, fr.l) = Zero
      \/ d = "u-m" /\ ~AboveChord(fr) /\ Sub(fr.u, fr.m) = Zero
      \/ /\ d = "su-sl"
         /\ ~AboveChord(fr)
         /\ Mul(Two, Sub(SlopeUpper(fr), SlopeLower(fr))) = Zero }

\* u = m; fu = fm;  m = l; fm = fl;  l = n; fl = fn;
WidenDown(fr, n, fn) ==
  [fr EXCEPT !.u = fr.m, !.fu = fr.fm, !.m = fr.l, !.fm = fr.fl, !.l = n, !.fl = fn]

\* l = n; fl = fn;
RaiseLower(fr, n, fn) == [fr EXCEPT !.l = n, !.fl = fn]

\* u = m; fu = fm;  m = n; fm = fn;
BestBelow(fr, n, fn) == [fr EXCEPT !.u = fr.m, !.fu = fr.fm, !.m = n, !.fm = fn]

\* u = n; fu = fn;
LowerUpper(fr, n, fn) == [fr EXCEPT !.u = n, !.fu = fn]

\* l = m; fl = fm;  m = n; fm = fn;
BestAbove(fr, n, fn) == [fr EXCEPT !.l = fr.m, !.fl = fr.fm, !.m = n, !.fm = fn]

\* l = m; fl = fm;  m = u; fm = fu;  u = n; fu = fn;
WidenUp(fr, n, fn) ==
  [fr EXCEPT !.l = fr.m, !.fl = fr.fm, !.m = fr.u, !.fm = fr.fu, !.u = n, !.fu = fn]

\* if ((u-l) < value_tolerance)
Converged(fr) == Lt(Sub(fr.u, fr.l), value_tolerance)

\* What a pass does: return (with the status, value and the path taken) or
\* go round again; fr is the bracket it leaves, n the candidate it computed
\* (NaN when none), pos the position found for n, evals its calls of the
\* functor.
Return(st, v, path, fr, n, pos, k) ==
  [returned |-> TRUE, status |-> st, ret |-> v, path |-> path,
   frame |-> fr, n |-> n, pos |-> pos, evals |-> k]

Continue(st, fr, n, pos) ==
  [returned |-> FALSE, status |-> st, ret |-> Zero, path |-> "continue",
   frame |-> fr, n |-> n, pos |-> pos, evals |-> 1]

\* A slip: SUCCESS without the test of u - l.
ConvergenceUnchecked(st, fr, n, pos) ==
  Return("SUCCESS", fr.m, "converged", fr, n, pos, 1)

\* The convergence test that ends a pass whose bracket update did not return.
ConvergenceCheck(st, fr, n, pos) ==
  IF Converged(fr)
  THEN Return("SUCCESS", fr.m, "converged", fr, n, pos, 1)
  ELSE Continue(st, fr, n, pos)

\* The branch of the if / else if chain that n and fn select.
Position(fr, n, fn) ==
  IF Lt(n, fr.l) THEN "below"
  ELSE IF Lt(n, fr.m) THEN (IF Gt(fn, fr.fm) THEN "lower_worse" ELSE "lower_better")
  ELSE IF Eq(n, fr.m) THEN "equal"
  ELSE IF Lt(n, fr.u) THEN (IF Gt(fn, fr.fm) THEN "upper_worse" ELSE "upper_better")
  ELSE "above"

\* The five cases of the position of n, then the convergence test.
BracketUpdate(st, fr, n, fn) ==
  LET pos == Position(fr, n, fn) IN
  CASE pos = "below" ->
         IF exit_outside_bounds
         THEN Return("OUTSIDE_BOUNDS", NaN, "outside_low", fr, n, pos, 1)
         ELSE ConvergenceCheck(st, WidenDown(fr, n, fn), n, pos)
    [] pos = "lower_worse" -> ConvergenceCheck(st, RaiseLower(fr, n, fn), n, pos)
    [] pos = "lower_better" -> ConvergenceCheck(st, BestBelow(fr, n, fn), n, pos)
    [] pos = "equal" -> Return(st, n, "equal", fr, n, pos, 1)
    [] pos = "upper_worse" -> ConvergenceCheck(st, LowerUpper(fr, n, fn), n, pos)
    [] pos = "upper_better" -> ConvergenceCheck(st, BestAbove(fr, n, fn), n, pos)
    [] pos = "above" ->
         IF exit_outside_bounds
         THEN Return("OUTSIDE_BOUNDS", NaN, "outside_high", fr, n, pos, 1)
         ELSE ConvergenceCheck(st, WidenUp(fr, n, fn), n, pos)

\* One pass of the loop of operator(), entered with status st and bracket fr.
BodyOperator(st, fr) ==
  LET g == [fr EXCEPT !.iters = @ + 1] IN
  IF AboveChord(fr) THEN
    IF ToleratedOperator(fr)
    THEN Return("SUCCESS", fr.m, "nonconvex_tolerated", g, NaN, "none", 0)
    ELSE Return("NONCONVEX", NaN, "nonconvex", g, NaN, "none", 0)
  ELSE
    LET n == Candidate(fr)
        fn == Functor(functor, n)
    IN  IF ~IsFinite(fn)
        THEN Return(st, fr.m, "nonfinite", g, n, "none", 1)
        ELSE BracketUpdate(st, g, n, fn)

\* One pass of the loop of verbose().
BodyVerbose(st, fr) ==
  LET g == [fr EXCEPT !.iters = @ + 1] IN
  IF AboveChord(fr) THEN
    IF ToleratedVerbose(fr)
    THEN Return("SUCCESS", fr.m, "nonconvex_tolerated", g, NaN, "none", 0)
    ELSE Return("NONCONVEX", NaN, "nonconvex", g, NaN, "none", 0)
  ELSE
    LET n == Candidate(fr)
        fn == Functor(functor, n)
    IN  BracketUpdate(st, g, n, fn)

(***************************************************************************)
(* The calls.                                                              *)
(***************************************************************************)
\* status = EXECUTING; l, m, u and fl, fm, fu; iters = 0
Enter(e) ==
  /\ pc = "idle"
  /\ ~result[e].done
  /\ status' = "EXECUTING"
  /\ frame' = [l |-> init_lower, m |-> init_mid, u |-> init_upper,
               fl |-> Functor(functor, init_lower),
               fm |-> Functor(functor, init_mid),
               fu |-> Functor(functor, init_upper),
               iters |-> 0]
  /\ obs' = [evals |-> 3, steps |-> 0, zdiv |-> {}, trace |-> << >>]
  /\ pc' = e
  /\ UNCHANGED <<config, functor, result>>

\* The state after a pass with outcome o of entry point e.
Apply(e, o) ==
  LET seen == [evals |-> obs.evals + o.evals,
               steps |-> obs.steps + o.evals,
               zdiv  |-> obs.zdiv \cup ZeroDivisors(e, frame),
               trace |-> Append(obs.trace, <<frame.l, frame.m, frame.u, o.n, o.pos>>)]
  IN  /\ status' = o.status
      /\ IF o.returned
         THEN /\ pc' = "idle"
              /\ frame' = NoFrame
              /\ obs' = NoObs
              /\ result' = [result EXCEPT ![e] =
                              [done |-> TRUE, ret |-> o.ret, status |-> o.status,
                               path |-> o.path, frame |-> o.frame, obs |-> seen]]
         ELSE /\ pc' = pc
              /\ frame' = o.frame
              /\ obs' = seen
              /\ result' = result
      /\ UNCHANGED <<config, functor>>

\* while (iters++ < max_iters) fails: status = NONCONVERGING; return NAN;
Exhaust(e) ==
  /\ pc = e
  /\ ~(frame.iters < max_iters)
  /\ status' = "NONCONVERGING"
  /\ pc' = "idle"
  /\ frame' = NoFrame
  /\ obs' = NoObs
  /\ result' = [result EXCEPT ![e] =
                  [done |-> TRUE, ret |-> NaN, status |-> "NONCONVERGING",
                   path |-> "exhausted", frame |-> frame, obs |-> obs]]
  /\ UNCHANGED <<config, functor>>

CallOperator == Enter("operator")

\* A slip: the loop without its iteration budget.
PassOperatorUnbudgeted ==
  /\ pc = "operator"
  /\ frame.iters < MaxPasses
  /\ Apply("operator", BodyOperator(status, frame))

PassOperator ==
  /\ pc = "operator"
  /\ frame.iters < max_iters
  /\ frame.iters < MaxPasses
  /\ Apply("operator", BodyOperator(status, frame))

ExhaustOperator == Exhaust("operator")

CallVerbose == Enter("verbose")

PassVerbose ==
  /\ pc = "verbose"
  /\ frame.iters < max_iters
  /\ frame.iters < MaxPasses
  /\ Apply("verbose", BodyVerbose(status, frame))

ExhaustVerbose == Exhaust("verbose")

Next ==
  \/ \E i \in LowerBounds : set_lower_bound(i)
  \/ \E i \in InitEstimates : set_init_estimate(i)
  \/ \E i \in UpperBounds : set_upper_bound(i)
  \/ \E i \in ValueTolerances : set_value_tolerance(i)
  \/ \E i \in FunctionTolerances : set_function_tolerance(i)
  \/ \E i \in BOOLEAN : set_exit_if_outside_bounds(i)
  \/ \E i \in IterationCounts : set_max_iterations(i)
  \/ CallOperator
  \/ PassOperator
  \/ ExhaustOperator
  \/ CallVerbose
  \/ PassVerbose
  \/ ExhaustVerbose

Spec == Init /\ [][Next]_vars

(***************************************************************************)
(* Properties.                                                             *)
(***************************************************************************)
\* What the caller of operator() got back.
Op == result["operator"]

\* What the caller of verbose() got back.
Vb == result["verbose"]

\* The initial bracket is l < m < u.
Ordered == Lt(init_lower, init_mid) /\ Lt(init_mid, init_upper)

\* The tolerances the constructor sets for these bounds.
DefaultTolerances ==
  /\ value_tolerance = Mul(Rat(1, 1000), Sub(init_upper, init_lower))
  /\ function_tolerance = Zero

\* a*(x-c)^2 with a > 0: its minimum is at c.
ConvexQuadratic == functor.kind = "quad" /\ Lt(Zero, functor.a)

\* a*(x-c)^2 with a < 0.
ConcaveQuadratic == functor.kind = "quad" /\ Lt(functor.a, Zero)

\* The cost functions with a minimum, which is at c.
HasMinimum == ConvexQuadratic \/ functor.kind = "abs"

MinimumInside == Lt(init_lower, functor.c) /\ Lt(functor.c, init_upper)

MinimumOutside == Lt(functor.c, init_lower) \/ Lt(init_upper, functor.c)

Failures == { "OUTSIDE_BOUNDS", "NONCONVEX", "NONCONVERGING" }

\* The candidates a finished call computed, with the bracket each was
\* computed from: the passes that got past the chord test.
Computed(r) == { i \in 1 .. Len(r.obs.trace) : r.obs.trace[i][5] # "none" \/ r.path = "nonfinite" }

\* C1: once a call of operator() or verbose() has returned, get_status() is
\* not EXECUTING, whichever return path was taken.
C1_NeverExecutingAfterReturn ==
  /\ \A e \in Entries : result[e].done => result[e].status # "EXECUTING"
  /\ pc = "idle" => status # "EXECUTING"

\* C2: for a strictly convex quadratic whose minimum is strictly inside the
\* initial bracket l < m < u, with the default tolerances and iteration
\* budget and exit-on-outside-bounds enabled, operator() returns a value
\* within the value tolerance of the minimum and leaves status SUCCESS.
C2_ConvexQuadraticSucceeds ==
  ( /\ Op.done
    /\ ConvexQuadratic
    /\ Ordered
    /\ MinimumInside
    /\ DefaultTolerances
    /\ exit_outside_bounds
    /\ max_iters = DefaultMaxIters )
  => /\ Lt(AbsVal(Sub(Op.ret, functor.c)), value_tolerance)
     /\ Op.status = "SUCCESS"

C4_OutsideBoundsWhenMinimumOutside ==
  /\ ( /\ Op.done
       /\ exit_outside_bounds
       /\ Ordered
       /\ HasMinimum
       /\ MinimumOutside
       /\ max_iters = DefaultMaxIters )
     => IsNaN(Op.ret) /\ Op.status = "OUTSIDE_BOUNDS"
  /\ Op.done =>
       ( Op.status = "OUTSIDE_BOUNDS"
         <=> /\ exit_outside_bounds
             /\ \E i \in Computed(Op) :
                  LET t == Op.obs.trace[i] IN
                  \/ Lt(t[4], t[1])
                  \/ Eq(t[4], t[3]) \/ Gt(t[4], t[3]) )
  /\ (Op.done /\ Op.status = "OUTSIDE_BOUNDS") =>
       LET t == Op.obs.trace[Len(Op.obs.trace)] IN
       <<Op.frame.l, Op.frame.m, Op.frame.u>> = <<t[1], t[2], t[3]>>

\* C5: with exit-on-outside-bounds disabled (default tolerances and budget),
\* for a strictly convex quadratic whose minimum is outside the initial
\* bracket l < m < u, operator() does not end OUTSIDE_BOUNDS and returns the
\* minimum within the value tolerance with status SUCCESS.
C5_WidensAndSucceeds ==
  ( /\ Op.done
    /\ ~exit_outside_bounds
    /\ ConvexQuadratic
    /\ Ordered
    /\ MinimumOutside
    /\ DefaultTolerances
    /\ max_iters = DefaultMaxIters )
  => /\ Op.status # "OUTSIDE_BOUNDS"
     /\ Lt(AbsVal(Sub(Op.ret, functor.c)), value_tolerance)
     /\ Op.status = "SUCCESS"

\* C6: operator() returns the not-a-number sentinel exactly when its final
\* status is OUTSIDE_BOUNDS, NONCONVEX or NONCONVERGING, and with final status
\* SUCCESS it returns the midpoint m of its last bracket, which either has
\* u - l below the value tolerance or failed the chord test within tolerance.
C6_SentinelIffFailureStatus ==
  Op.done =>
    /\ IsNaN(Op.ret) <=> Op.status \in Failures
    /\ Op.status = "SUCCESS" =>
         /\ Op.ret = Op.frame.m
         /\ \/ Converged(Op.frame)
            \/ /\ AboveChord(Op.frame)
               /\ WithinValueTolerance(Op.frame) \/ WithinFunctionTolerance(Op.frame)

\* Witness of C6: a call that converged after a bracket update, with status
\* SUCCESS and the midpoint.
C6_Witness ==
  /\ Op.done
  /\ Op.path = "converged"
  /\ Op.status = "SUCCESS"
  /\ IsFinite(Op.ret)
  /\ Op.obs.steps >= 1

\* C7 as stated, its last sentence: with max_iterations = 1 the call performs
\* exactly one interpolation step and then either returns a value or ends
\* NONCONVERGING.
C7_OneIterationOneStep ==
  (Op.done /\ max_iters = 1) =>
    /\ Op.obs.steps = 1
    /\ IsFinite(Op.ret) \/ Op.status = "NONCONVERGING"

\* C7 as amended: operator() begins at most max_iterations passes of its loop
\* and makes at most 3 + max_iterations cost evaluations (three, and one per
\* candidate); when the budget is exhausted without a return from a pass the
\* status is NONCONVERGING and the sentinel is returned, after exactly
\* max_iterations passes.  With max_iterations = 1 the call computes at most
\* one candidate: none when the chord test returns first.
C7_TerminatesWithinBudget ==
  /\ pc = "operator" =>
       /\ frame.iters <= max_iters
       /\ obs.steps <= frame.iters
       /\ obs.evals = 3 + obs.steps
  /\ Op.done =>
       /\ Op.frame.iters <= max_iters
       /\ Op.obs.steps <= Op.frame.iters
       /\ Op.obs.evals = 3 + Op.obs.steps
       /\ Op.obs.evals <= 3 + max_iters
       /\ Op.path = "exhausted" =>
            /\ Op.status = "NONCONVERGING"
            /\ IsNaN(Op.ret)
            /\ Op.frame.iters = max_iters
       /\ max_iters = 1 =>
            /\ Op.obs.steps <= 1
            /\ Op.obs.steps = 0 => Op.path \in { "nonconvex", "nonconvex_tolerated" }

\* Witness of C7: with max_iterations = 1, one candidate was computed, the
\* pass did not return, and the call ended NONCONVERGING.
C7_Witness ==
  /\ Op.done
  /\ max_iters = 1
  /\ Op.path = "exhausted"
  /\ Op.obs.steps = 1
  /\ Op.obs.evals = 4

\* C8: on the same configuration and cost function, operator() and verbose()
\* visit the same brackets and candidates and end with the same return value
\* and the same status.
C8_VerboseEquivalent ==
  (Op.done /\ Vb.done) =>
    /\ Op.obs.trace = Vb.obs.trace
    /\ Op.ret = Vb.ret
    /\ Op.status = Vb.status

\* C9: from an initial bracket l < m < u, l < m < u holds at the start of
\* every pass of the loop of operator().
C9_BracketOrdered ==
  (pc = "operator" /\ Ordered /\ frame.iters < max_iters) =>
    Lt(frame.l, frame.m) /\ Lt(frame.m, frame.u)

\* C10: from an initial bracket l < m < u, no pass of operator() divides by
\* zero: u - l, m - l, u - m and su - sl are non-zero wherever they are
\* evaluated.
C10_NoZeroDivisor ==
  Ordered =>
    /\ pc = "operator" => obs.zdiv = {}
    /\ Op.done => Op.obs.zdiv = {}

=============================================================================
